---- MODULE Spec2Model ----
(***************************************************************************)
(* The threaded scene-graph render loop of QtQuick:                        *)
(*   QSGThreadedRenderLoop (the loop coordinator, on the GUI thread) and   *)
(*   QSGRenderThread       (the render worker),                            *)
(* src/quick/scenegraph/qsgthreadedrenderloop.cpp.                         *)
(*                                                                         *)
(* The two threads are two processes with a program counter each.  The GUI *)
(* thread runs one coordinator call at a time; a call is the stack guiK of *)
(* the sub-calls it still has to make, and the GUI takes no other call     *)
(* until that stack is empty.  The render thread walks QSGRenderThread::   *)
(* run().  The threads meet through the two posted-event queues, the mutex *)
(* and the wait condition, and through the unsynchronised volatile fields  *)
(* of QSGRenderThread.                                                     *)
(***************************************************************************)
EXTENDS Integers, Sequences, FiniteSets, TLC

\* ---------------------------------------------------------------- bounds
\* The host stops starting/stopping animations, and sending expose events
\* ahead of show events, while this many events wait in the render thread's
\* queue.
MaxRtQueue == 1
\* Runs in which more than this many events wait in the GUI thread's queue
\* are not followed further.
MaxGuiQueue == 2
\* Runs in which lost updates drive animationRequestsPending further below
\* zero than this are not followed further.
MaxDrift == 1
\* Frames of a window are counted up to this many.
MaxFrames == 2

\* The windows of the host application.
Windows == {"w1", "w2"}
\* QSize values <<width, height>> the host gives its windows.
Sizes == {<<0, 1>>, <<1, 0>>, <<1, 1>>, <<2, 1>>}
\* The sizes a window has when it is exposed, where resizing is not looked at.
ExposeSizes == {<<0, 1>>, <<1, 0>>, <<1, 1>>}
NoWindow == "none"
\* No frames are counted for a window.
NoCount == [counting |-> FALSE, n |-> 0]
NoSize == <<0, 0>>

\* QSGRenderThread::UpdateRequest
SyncRequest == 1
RepaintRequest == 2

VARIABLES
    \* --- the host: QQuickWindow / QWindow state the loop reads
    visible,            \* window->isVisible()
    exposed,            \* window->isExposed()
    persistentSG,       \* window->isPersistentSceneGraph(), as set when release is asked
    persistentGL,       \* window->isPersistentOpenGLContext(), as set when release is asked
    renderer,           \* QQuickWindowPrivate::renderer != 0
    driverRunning,      \* m_animation_driver->isRunning()
    \* --- QSGThreadedRenderLoop
    m_windows,          \* QList<Window>: [window, pendingUpdate]
    m_animation_timer,  \* m_animation_timer != 0
    m_update_timer,     \* m_update_timer != 0
    guiPc,              \* where the GUI thread is; "crashed" after a fault
    guiK,               \* the sub-calls the running coordinator call still makes
    guiTmp,             \* the value --animationRequestsPending has read
    guiQueue,           \* events posted to the coordinator
    \* --- QSGRenderThread
    running,            \* QThread::isRunning()
    rtPc,               \* where the render thread is in run(); "crashed" after a fault
    rt_windows,         \* QSGRenderThread::m_windows: [window, size]
    gl,                 \* gl != 0
    sgReady,            \* sg->isReady()
    pendingUpdate,      \* the 2-bit mask, as the set of bits set
    sleeping,
    animationRunning,
    guiIsLocked,
    shouldExit,
    animationRequestsPending,
    rtTmp,              \* the value ++animationRequestsPending has read
    exitFlag,           \* exit() was called on the nested event loop
    rtQueue,            \* events posted to the render thread
    mutex,              \* "free", "gui" or "rt"
    woken,              \* the GUI's wait has been woken and not yet resumed
    \* --- observation
    sigCount,           \* wakeOne() calls since the GUI's current wait began
    hooks,              \* the scene-graph hooks the last render-thread step called
    zeroResized,        \* resize() last gave the exposed window a width or height of 0
    frames              \* frames presented of the window whose WM_Expose a parked thread handled last

hostVars == <<visible, exposed, persistentSG, persistentGL, renderer, driverRunning>>
loopVars == <<m_windows, m_animation_timer, m_update_timer, guiPc, guiK, guiTmp, guiQueue>>
threadVars == <<running, rtPc, rt_windows, gl, sgReady, pendingUpdate, sleeping,
                animationRunning, guiIsLocked, shouldExit, animationRequestsPending,
                rtTmp, exitFlag, rtQueue, mutex, woken>>
obsVars == <<sigCount, hooks, zeroResized, frames>>
vars == <<hostVars, loopVars, threadVars, obsVars>>

\* ---------------------------------------------------------------- helpers
\* A posted event; the payload fields an event kind does not carry are blank.
Ev(t, w, s, d) == [type |-> t, window |-> w, size |-> s, inDestructor |-> d]

\* A sub-call of a coordinator call.
Call(o, w, d) == [op |-> o, window |-> w, size |-> NoSize, inDestructor |-> d]

\* windowFor(list, window): the index of the first record of the window, 0 if none.
windowFor(list, window) ==
    IF \E i \in 1..Len(list) : list[i].window = window
    THEN CHOOSE i \in 1..Len(list) :
            /\ list[i].window = window
            /\ \A j \in 1..(i - 1) : list[j].window # window
    ELSE 0

\* QList::removeAt(i), 1-based.
removeAt(list, i) == [k \in 1..(Len(list) - 1) |-> IF k < i THEN list[k] ELSE list[k + 1]]

\* The first record of the window removed, as the loops of hide() and WM_Obscure do.
removeWindow(list, window) ==
    IF windowFor(list, window) = 0 THEN list ELSE removeAt(list, windowFor(list, window))

\* width() == 0 || height() == 0
isDegenerate(size) == size[1] = 0 \/ size[2] = 0

anyoneShowing ==
    \E i \in 1..Len(m_windows) : visible[m_windows[i].window] /\ exposed[m_windows[i].window]

\* A hook call the render thread makes.
Hook(h, w, s) == [hook |-> h, window |-> w, size |-> s]

\* waitCondition.wakeOne(): it wakes the GUI thread if the GUI thread waits.
GuiWaits == guiPc \in {"ps_wait", "rel_wait", "grab_wait"}

Init ==
    /\ visible = [w \in Windows |-> FALSE]
    /\ exposed = [w \in Windows |-> FALSE]
    /\ persistentSG = [w \in Windows |-> FALSE]
    /\ persistentGL = [w \in Windows |-> FALSE]
    /\ renderer = [w \in Windows |-> FALSE]
    /\ driverRunning = FALSE
    /\ m_windows = <<>>
    /\ m_animation_timer = FALSE
    /\ m_update_timer = FALSE
    /\ guiPc = "run"
    /\ guiK = <<>>
    /\ guiTmp = 0
    /\ guiQueue = <<>>
    /\ running = FALSE
    /\ rtPc = "off"
    /\ rt_windows = <<>>
    /\ gl = FALSE
    /\ sgReady = FALSE
    /\ pendingUpdate = {}
    /\ sleeping = FALSE
    /\ animationRunning = FALSE
    /\ guiIsLocked = FALSE
    /\ shouldExit = FALSE
    /\ animationRequestsPending = 0
    /\ rtTmp = 0
    /\ exitFlag = FALSE
    /\ rtQueue = <<>>
    /\ mutex = "free"
    /\ woken = FALSE
    /\ sigCount = 0
    /\ hooks = <<>>
    /\ zeroResized = [w \in Windows |-> FALSE]
    /\ frames = [w \in Windows |-> NoCount]


\* ======================================================== QSGRenderThread

\* The remaining render-thread events after the one being handled.
Pop == Tail(rtQueue)

\* An event of the given kind is next to be dispatched, by processEvents() of
\* run() or by the nested loop of exec() (rtPc is "events" in both; sleeping
\* tells them apart).
Dispatching(t) ==
    /\ rtPc = "events"
    /\ rtQueue # <<>>
    /\ Head(rtQueue).type = t

\* waitCondition.wakeOne()
WakeOne ==
    /\ woken' = (woken \/ GuiWaits)
    /\ sigCount' = IF GuiWaits THEN sigCount + 1 ELSE sigCount

\* exit(), which every handler calls only if (sleeping)
\* A handler that leaves the nested event loop alone (variant).
ExitNever == exitFlag' = exitFlag

ExitIfSleeping == exitFlag' = (exitFlag \/ sleeping)

\* The count of a window's frames after one more of them, if they are counted.
OneMore(count) ==
    IF count.counting /\ count.n < MaxFrames
    THEN [count EXCEPT !.n = count.n + 1]
    ELSE count

\* The counts after a render loop that has presented a frame of each of the
\* given records.
Presented(list) ==
    [w \in Windows |-> IF \E i \in 1..Len(list) : list[i].window = w
                       THEN OneMore(frames[w])
                       ELSE frames[w]]

\* case WM_Expose
HandleExpose ==
    /\ Dispatching("Expose")
    /\ LET se == Head(rtQueue) IN
         rt_windows' = IF windowFor(rt_windows, se.window) # 0
                       THEN rt_windows
                       ELSE Append(rt_windows, [window |-> se.window, size |-> se.size])
    /\ frames' = IF windowFor(rt_windows, Head(rtQueue).window) # 0
                 THEN frames
                 ELSE [w \in Windows |->
                          IF w = Head(rtQueue).window
                          THEN [counting |-> sleeping /\ ~exitFlag, n |-> 0]
                          ELSE NoCount]
    /\ rtQueue' = Pop
    /\ hooks' = <<>>
    /\ UNCHANGED <<hostVars, loopVars, running, rtPc, gl, sgReady, pendingUpdate, sleeping,
                   animationRunning, guiIsLocked, shouldExit, animationRequestsPending,
                   rtTmp, exitFlag, mutex, woken, sigCount>>
    /\ UNCHANGED zeroResized

\* case WM_Obscure
HandleObscure ==
    /\ Dispatching("Obscure")
    /\ rt_windows' = removeWindow(rt_windows, Head(rtQueue).window)
    /\ exitFlag' = (exitFlag \/ (sleeping /\ Len(rt_windows') > 0))
    /\ frames' = [frames EXCEPT ![Head(rtQueue).window] = NoCount]
    /\ rtQueue' = Pop
    /\ hooks' = <<>>
    /\ UNCHANGED <<hostVars, loopVars, running, rtPc, gl, sgReady, pendingUpdate, sleeping,
                   animationRunning, guiIsLocked, shouldExit, animationRequestsPending,
                   rtTmp, mutex, woken, sigCount>>
    /\ UNCHANGED zeroResized

\* case WM_RequestSync
HandleRequestSync ==
    /\ Dispatching("RequestSync")
    /\ ExitIfSleeping
    /\ pendingUpdate' = IF Len(rt_windows) > 0
                        THEN pendingUpdate \cup {SyncRequest}
                        ELSE pendingUpdate
    /\ rtQueue' = Pop
    /\ hooks' = <<>>
    /\ UNCHANGED <<hostVars, loopVars, running, rtPc, rt_windows, gl, sgReady, sleeping,
                   animationRunning, guiIsLocked, shouldExit, animationRequestsPending,
                   rtTmp, mutex, woken, sigCount>>
    /\ UNCHANGED <<zeroResized, frames>>

\* A null pointer is dereferenced: the process is gone, both threads with it.
Fault ==
    /\ rtPc' = "crashed"
    /\ guiPc' = "crashed"

\* case WM_Resize without the assignment of the size
HandleResizeDropped ==
    /\ Dispatching("Resize")
    /\ IF windowFor(rt_windows, Head(rtQueue).window) = 0
       THEN Fault
       ELSE UNCHANGED <<rtPc, guiPc>>
    /\ rtQueue' = Pop
    /\ hooks' = <<>>
    /\ UNCHANGED <<hostVars, m_windows, m_animation_timer, m_update_timer, guiK, guiTmp,
                   guiQueue, running, rt_windows, gl, sgReady, pendingUpdate, sleeping,
                   animationRunning, guiIsLocked, shouldExit, animationRequestsPending,
                   rtTmp, exitFlag, mutex, woken, sigCount>>
    /\ UNCHANGED <<zeroResized, frames>>

\* case WM_Resize: w->size = re->size with w = windowFor(...), which is null
\* when the window has no record.
HandleResize ==
    /\ Dispatching("Resize")
    /\ LET re == Head(rtQueue)
           w == windowFor(rt_windows, re.window) IN
         IF w = 0
         THEN /\ Fault
              /\ UNCHANGED rt_windows
         ELSE /\ rt_windows' = [rt_windows EXCEPT ![w].size = re.size]
              /\ UNCHANGED <<rtPc, guiPc>>
    /\ rtQueue' = Pop
    /\ hooks' = <<>>
    /\ UNCHANGED <<hostVars, m_windows, m_animation_timer, m_update_timer, guiK, guiTmp,
                   guiQueue, running, gl, sgReady, pendingUpdate, sleeping,
                   animationRunning, guiIsLocked, shouldExit, animationRequestsPending,
                   rtTmp, exitFlag, mutex, woken, sigCount>>
    /\ UNCHANGED <<zeroResized, frames>>

\* invalidateOpenGL: persistentSG / persistentGL, OR-ed over the coordinator's
\* windows, the requesting one left out in its destructor.
PersistentSG(window, inDestructor) ==
    \E i \in 1..Len(m_windows) :
        /\ (~inDestructor \/ m_windows[i].window # window)
        /\ persistentSG[m_windows[i].window]

PersistentGL(window, inDestructor) ==
    \E i \in 1..Len(m_windows) :
        /\ (~inDestructor \/ m_windows[i].window # window)
        /\ persistentGL[m_windows[i].window]

\* invalidateOpenGL: whether cleanupNodesOnShutdown() is called for the window.
InvalidateCleansNodes(window, inDestructor) ==
    gl /\ (~PersistentSG(window, inDestructor) \/ inDestructor)

\* invalidateOpenGL: sg->isReady() afterwards.
InvalidateSG(window, inDestructor) ==
    IF gl /\ ~PersistentSG(window, inDestructor) THEN FALSE ELSE sgReady

\* invalidateOpenGL with the context kept for a persistent context only
InvalidateGLUnlessPersistentGL(window, inDestructor) ==
    IF gl /\ ~PersistentGL(window, inDestructor) THEN FALSE ELSE gl

\* invalidateOpenGL: gl != 0 afterwards.
InvalidateGL(window, inDestructor) ==
    IF gl /\ ~PersistentSG(window, inDestructor) /\ ~PersistentGL(window, inDestructor)
    THEN FALSE
    ELSE gl

\* The thread told to exit whatever became of the context
ExitsAlways(context) == TRUE

\* case WM_TryRelease: shouldExit = !gl
ExitsWithout(context) == ~context

\* The wake-up moved into the branch that releases
TryReleaseWakesIfReleased ==
    IF Len(rt_windows) = 0 THEN WakeOne ELSE UNCHANGED <<woken, sigCount>>

\* case WM_TryRelease: waitCondition.wakeOne(), after the if and its else
TryReleaseWakes == WakeOne

\* Variant of NoActiveWindows: releases whatever the thread still renders.
NoActiveWindowsIgnored == TRUE

\* The test of the WM_TryRelease handler: m_windows.size() == 0
NoActiveWindows == Len(rt_windows) = 0

\* case WM_TryRelease, between mutex.lock() and mutex.unlock()
HandleTryRelease ==
    /\ Dispatching("TryRelease")
    /\ mutex = "free"
    /\ LET wme == Head(rtQueue) IN
         IF NoActiveWindows
         THEN /\ gl' = InvalidateGL(wme.window, wme.inDestructor)
              /\ sgReady' = InvalidateSG(wme.window, wme.inDestructor)
              /\ renderer' = IF InvalidateCleansNodes(wme.window, wme.inDestructor)
                             THEN [renderer EXCEPT ![wme.window] = FALSE]
                             ELSE renderer
              /\ hooks' = IF InvalidateCleansNodes(wme.window, wme.inDestructor)
                          THEN <<Hook("cleanupNodesOnShutdown", wme.window, NoSize)>>
                          ELSE <<>>
              /\ shouldExit' = ExitsWithout(gl')
              /\ ExitIfSleeping
         ELSE /\ hooks' = <<>>
              /\ UNCHANGED <<gl, sgReady, renderer, shouldExit, exitFlag>>
    /\ TryReleaseWakes
    /\ rtQueue' = Pop
    /\ UNCHANGED <<visible, exposed, persistentSG, persistentGL, driverRunning,
                   loopVars, running, rtPc, rt_windows, pendingUpdate, sleeping,
                   animationRunning, guiIsLocked, animationRequestsPending, rtTmp,
                   mutex>>
    /\ UNCHANGED <<zeroResized, frames>>

\* case WM_Grab, up to mutex.lock(): with a record for the window the handler
\* goes on to sync and render it, without one it wakes the GUI at once.
HandleGrab ==
    /\ Dispatching("Grab")
    /\ mutex = "free"
    /\ IF windowFor(rt_windows, Head(rtQueue).window) # 0
       THEN /\ rtPc' = "grab"
            /\ mutex' = "rt"
            /\ UNCHANGED <<rtQueue, woken, sigCount>>
       ELSE /\ WakeOne
            /\ rtQueue' = Pop
            /\ UNCHANGED <<rtPc, mutex>>
    /\ hooks' = <<>>
    /\ UNCHANGED <<hostVars, loopVars, running, rt_windows, gl, sgReady, pendingUpdate,
                   sleeping, animationRunning, guiIsLocked, shouldExit,
                   animationRequestsPending, rtTmp, exitFlag>>
    /\ UNCHANGED <<zeroResized, frames>>

\* case WM_Grab, if (w) { ... } to mutex.unlock(); gl->makeCurrent() on a null gl
\* is a fault.
GrabBody ==
    /\ rtPc = "grab"
    /\ LET ce == Head(rtQueue)
           w == rt_windows[windowFor(rt_windows, ce.window)] IN
         IF ~gl
         THEN /\ Fault
              /\ UNCHANGED <<renderer, hooks, woken, sigCount, mutex, rtQueue>>
         ELSE /\ renderer' = [renderer EXCEPT ![w.window] = TRUE]
              /\ hooks' = <<Hook("syncSceneGraph", w.window, NoSize),
                            Hook("renderSceneGraph", ce.window, w.size),
                            Hook("read_framebuffer", ce.window, w.size)>>
              /\ WakeOne
              /\ mutex' = "free"
              /\ rtQueue' = Pop
              /\ rtPc' = "events"
              /\ UNCHANGED guiPc
    /\ UNCHANGED <<visible, exposed, persistentSG, persistentGL, driverRunning,
                   m_windows, m_animation_timer, m_update_timer, guiK, guiTmp, guiQueue,
                   running, rt_windows, gl, sgReady, pendingUpdate, sleeping,
                   animationRunning, guiIsLocked, shouldExit, animationRequestsPending,
                   rtTmp, exitFlag>>
    /\ UNCHANGED <<zeroResized, frames>>

\* slot animationStarted(), delivered to the render thread as a queued call
HandleAnimationStarted ==
    /\ Dispatching("animationStarted")
    /\ animationRunning' = TRUE
    /\ ExitIfSleeping
    /\ rtQueue' = Pop
    /\ hooks' = <<>>
    /\ UNCHANGED <<hostVars, loopVars, running, rtPc, rt_windows, gl, sgReady, pendingUpdate,
                   sleeping, guiIsLocked, shouldExit, animationRequestsPending, rtTmp,
                   mutex, woken, sigCount>>
    /\ UNCHANGED <<zeroResized, frames>>

\* slot animationStopped()
HandleAnimationStopped ==
    /\ Dispatching("animationStopped")
    /\ animationRunning' = FALSE
    /\ rtQueue' = Pop
    /\ hooks' = <<>>
    /\ UNCHANGED <<hostVars, loopVars, running, rtPc, rt_windows, gl, sgReady, pendingUpdate,
                   sleeping, guiIsLocked, shouldExit, animationRequestsPending, rtTmp,
                   exitFlag, mutex, woken, sigCount>>
    /\ UNCHANGED <<zeroResized, frames>>


\* ------------------------------------------------------ run() and its calls

\* The animation test with its limit off by one
WantsAdvanceUpToThree == animationRunning /\ animationRequestsPending < 3

\* syncAndRender: animationRunning && animationRequestsPending < 2
WantsAdvance == animationRunning /\ animationRequestsPending < 2

\* The event syncAndRender would post is within the bounds of the model.
AdvanceFits == Len(guiQueue) < MaxGuiQueue /\ animationRequestsPending > -MaxDrift

\* run(): the loop test; with windows, the GL context and the scene graph are
\* made ready and syncAndRender() begins with its animation test.
RunLoopTop ==
    /\ rtPc = "top"
    /\ IF shouldExit
       THEN /\ rtPc' = "exited"
            /\ UNCHANGED <<gl, sgReady>>
       ELSE IF Len(rt_windows) > 0
       THEN /\ gl' = TRUE
            /\ sgReady' = TRUE
            /\ WantsAdvance => AdvanceFits
            /\ rtPc' = IF WantsAdvance THEN "inc_r" ELSE "sar"
       ELSE /\ rtPc' = "events"
            /\ UNCHANGED <<gl, sgReady>>
    /\ hooks' = <<>>
    /\ UNCHANGED <<hostVars, loopVars, running, rt_windows, pendingUpdate, sleeping,
                   animationRunning, guiIsLocked, shouldExit, animationRequestsPending,
                   rtTmp, exitFlag, rtQueue, mutex, woken, sigCount>>
    /\ UNCHANGED <<zeroResized, frames>>

\* ++animationRequestsPending: the read
AdvanceRead ==
    /\ rtPc = "inc_r"
    /\ rtTmp' = animationRequestsPending
    /\ rtPc' = "inc_w"
    /\ UNCHANGED <<hostVars, loopVars, running, rt_windows, gl, sgReady, pendingUpdate,
                   sleeping, animationRunning, guiIsLocked, shouldExit,
                   animationRequestsPending, exitFlag, rtQueue, mutex, woken,
                   obsVars>>

\* ++animationRequestsPending: the write, and postEvent(wm, WM_AdvanceAnimations)
AdvanceWrite ==
    /\ rtPc = "inc_w"
    /\ animationRequestsPending' = rtTmp + 1
    /\ rtTmp' = 0
    /\ guiQueue' = Append(guiQueue, Ev("AdvanceAnimations", NoWindow, NoSize, FALSE))
    /\ rtPc' = "sar"
    /\ UNCHANGED <<hostVars, m_windows, m_animation_timer, m_update_timer, guiPc, guiK,
                   guiTmp, running, rt_windows, gl, sgReady, pendingUpdate, sleeping,
                   animationRunning, guiIsLocked, shouldExit, exitFlag, rtQueue, mutex,
                   woken, obsVars>>

\* sync(): the records its loop does not skip, in list order
SyncedWindows == SelectSeq(rt_windows, LAMBDA r : ~isDegenerate(r.size))

\* syncAndRender: the records its render loop does not skip, given which
\* windows have a renderer
RenderedWindows(hasRenderer) ==
    SelectSeq(rt_windows, LAMBDA r : hasRenderer[r.window] /\ ~isDegenerate(r.size))

\* syncAndRender: the calls of its render loop (each followed by swapBuffers
\* and fireFrameSwapped)
RenderCalls(hasRenderer) ==
    [i \in 1..Len(RenderedWindows(hasRenderer)) |->
        Hook("renderSceneGraph", RenderedWindows(hasRenderer)[i].window,
             RenderedWindows(hasRenderer)[i].size)]

\* syncAndRender, after its animation test: with a sync pending, as far as
\* mutex.lock() in sync(), where the assertion on guiIsLocked is evaluated;
\* with none, the render loop.
SyncAndRender ==
    /\ rtPc = "sar"
    /\ IF SyncRequest \in pendingUpdate
       THEN /\ mutex = "free"
            /\ mutex' = "rt"
            /\ rtPc' = "syncing"
            /\ hooks' = <<>>
            /\ UNCHANGED frames
       ELSE /\ rtPc' = "events"
            /\ hooks' = RenderCalls(renderer)
            /\ frames' = Presented(RenderedWindows(renderer))
            /\ UNCHANGED mutex
    /\ UNCHANGED <<hostVars, loopVars, running, rt_windows, gl, sgReady, pendingUpdate,
                   sleeping, animationRunning, guiIsLocked, shouldExit,
                   animationRequestsPending, rtTmp, exitFlag, rtQueue, woken,
                   sigCount>>
    /\ UNCHANGED zeroResized

\* sync(), from pendingUpdate = 0 to mutex.unlock(), and the render loop of
\* syncAndRender that follows it
Sync ==
    /\ rtPc = "syncing"
    /\ pendingUpdate' = {}
    /\ renderer' = [w \in Windows |->
                      renderer[w] \/ (\E i \in 1..Len(SyncedWindows) : SyncedWindows[i].window = w)]
    /\ hooks' = [i \in 1..Len(SyncedWindows) |->
                   Hook("syncSceneGraph", SyncedWindows[i].window, NoSize)]
               \o RenderCalls(renderer')
    /\ frames' = Presented(RenderedWindows(renderer'))
    /\ WakeOne
    /\ mutex' = "free"
    /\ rtPc' = "events"
    /\ UNCHANGED <<visible, exposed, persistentSG, persistentGL, driverRunning,
                   loopVars, running, rt_windows, gl, sgReady, sleeping, animationRunning,
                   guiIsLocked, shouldExit, animationRequestsPending, rtTmp, exitFlag,
                   rtQueue>>
    /\ UNCHANGED zeroResized

\* Variant of GoesToSleep: the thread goes to sleep only when it has no window.
GoesToSleepWithoutWindows ==
    /\ ~shouldExit
    /\ Len(rt_windows) = 0

\* run(): the test that sends the thread to sleep
GoesToSleep ==
    /\ ~shouldExit
    /\ ((~animationRunning /\ pendingUpdate = {}) \/ Len(rt_windows) = 0)

\* run(): processEvents() has drained the queue; the thread then enters
\* exec() with sleeping set, or goes round the loop.
EventsDone ==
    /\ rtPc = "events"
    /\ rtQueue = <<>>
    /\ ~sleeping
    /\ IF GoesToSleep
       THEN /\ sleeping' = TRUE
            /\ frames' = [w \in Windows |-> NoCount]
            /\ UNCHANGED rtPc
       ELSE /\ rtPc' = "top"
            /\ UNCHANGED <<sleeping, frames>>
    /\ hooks' = <<>>
    /\ UNCHANGED <<hostVars, loopVars, running, rt_windows, gl, sgReady, pendingUpdate,
                   animationRunning, guiIsLocked, shouldExit, animationRequestsPending,
                   rtTmp, exitFlag, rtQueue, mutex, woken, sigCount>>
    /\ UNCHANGED zeroResized

\* run(): exec() returns once exit() was called and the events of that batch
\* are dispatched; sleeping = false
WakeUp ==
    /\ rtPc = "events"
    /\ rtQueue = <<>>
    /\ sleeping
    /\ exitFlag
    /\ sleeping' = FALSE
    /\ exitFlag' = FALSE
    /\ rtPc' = "top"
    /\ hooks' = <<>>
    /\ UNCHANGED <<hostVars, loopVars, running, rt_windows, gl, sgReady, pendingUpdate,
                   animationRunning, guiIsLocked, shouldExit, animationRequestsPending,
                   rtTmp, rtQueue, mutex, woken, sigCount>>
    /\ UNCHANGED <<zeroResized, frames>>

\* run() has returned (where it asserts !gl); the thread finishes and
\* isRunning() turns false.
ThreadFinished ==
    /\ rtPc = "exited"
    /\ running' = FALSE
    /\ rtPc' = "off"
    /\ UNCHANGED <<hostVars, loopVars, rt_windows, gl, sgReady, pendingUpdate, sleeping,
                   animationRunning, guiIsLocked, shouldExit, animationRequestsPending,
                   rtTmp, exitFlag, rtQueue, mutex, woken, obsVars>>

\* requestRepaint(), which update() calls when it runs on the render thread:
\* an item asks for a repaint from within the syncSceneGraph() or
\* renderSceneGraph() of the step before.
requestRepaint ==
    /\ rtPc = "events"
    /\ \E i \in 1..Len(hooks) : hooks[i].hook \in {"syncSceneGraph", "renderSceneGraph"}
    /\ RepaintRequest \notin pendingUpdate
    /\ Len(rt_windows) > 0 \/ (sleeping /\ ~exitFlag)
    /\ ExitIfSleeping
    /\ pendingUpdate' = IF Len(rt_windows) > 0
                        THEN pendingUpdate \cup {RepaintRequest}
                        ELSE pendingUpdate
    /\ UNCHANGED <<hostVars, loopVars, running, rtPc, rt_windows, gl, sgReady, sleeping,
                   animationRunning, guiIsLocked, shouldExit, animationRequestsPending,
                   rtTmp, rtQueue, mutex, woken, obsVars>>

\* run() and the handlers of the window life cycle
RenderThread ==
    \/ HandleExpose
    \/ HandleObscure
    \/ HandleRequestSync
    \/ HandleTryRelease
    \/ RunLoopTop
    \/ SyncAndRender
    \/ Sync
    \/ EventsDone
    \/ WakeUp
    \/ ThreadFinished

\* The render thread's part in a grab
RenderThreadGrab ==
    \/ HandleGrab
    \/ GrabBody

\* The render thread's part in animations
RenderThreadAnimation ==
    \/ HandleAnimationStarted
    \/ HandleAnimationStopped
    \/ AdvanceRead
    \/ AdvanceWrite

\* ================================================== QSGThreadedRenderLoop

\* The GUI thread is in its event loop: it runs no coordinator call.
GuiIdle == guiPc = "run" /\ guiK = <<>>

\* The GUI thread is about to make the given sub-call.
Calling(o) == guiPc = "run" /\ guiK # <<>> /\ Head(guiK).op = o

\* postEvent(m_thread, ...)
PostToThread(e) == rtQueue' = Append(rtQueue, e)

\* hide() without its call of handleObscurity()
HideCallsUnannounced(window) ==
    <<Call("releaseResources", window, FALSE), Call("removeWindow", window, FALSE)>>

\* hide() with releaseResources() before handleObscurity()
HideCallsReleaseFirst(window) ==
    <<Call("releaseResources", window, FALSE)>>
    \o (IF exposed[window] THEN <<Call("handleObscurity", window, FALSE)>> ELSE <<>>)
    \o <<Call("removeWindow", window, FALSE)>>

\* hide(): its calls, for a window that is or is not exposed
HideCalls(window) ==
    (IF exposed[window] THEN <<Call("handleObscurity", window, FALSE)>> ELSE <<>>)
    \o <<Call("releaseResources", window, FALSE), Call("removeWindow", window, FALSE)>>

\* show(), called by the window's show event
show(window) ==
    /\ GuiIdle
    /\ ~visible[window]
    /\ ~exposed[window]
    /\ visible' = [visible EXCEPT ![window] = TRUE]
    /\ m_windows' = Append(m_windows, [window |-> window, pendingUpdate |-> FALSE])
    /\ UNCHANGED <<exposed, persistentSG, persistentGL, renderer, driverRunning,
                   m_animation_timer, m_update_timer, guiPc, guiK, guiTmp, guiQueue,
                   threadVars, obsVars>>

\* hide(), called by the window's hide event, when isVisible() is false already
hide(window) ==
    /\ GuiIdle
    /\ visible[window]
    /\ visible' = [visible EXCEPT ![window] = FALSE]
    /\ guiK' = HideCalls(window)
    /\ UNCHANGED <<exposed, persistentSG, persistentGL, renderer, driverRunning,
                   m_windows, m_animation_timer, m_update_timer, guiPc, guiTmp, guiQueue,
                   threadVars, obsVars>>

\* windowDestroyed(), called by the window's destructor
windowDestroyed(window) ==
    /\ GuiIdle
    /\ guiK' = (IF visible[window] THEN HideCalls(window) ELSE <<>>)
               \o <<Call("releaseResources", window, TRUE), Call("destroyed", window, TRUE)>>
    /\ UNCHANGED <<hostVars, m_windows, m_animation_timer, m_update_timer, guiPc, guiTmp,
                   guiQueue, threadVars, obsVars>>

\* exposureChanged(), called by the window's expose event: only a visible
\* window becomes exposed, and size is the window->size() of that moment,
\* which WMExposeEvent reads
exposureChanged(window, size) ==
    /\ GuiIdle
    /\ exposed[window] \/ visible[window]
    /\ exposed[window] <=> size = NoSize
    /\ exposed' = [exposed EXCEPT ![window] = ~exposed[window]]
    /\ guiK' = IF windowFor(m_windows, window) = 0
               THEN <<>>
               ELSE IF exposed'[window]
               THEN <<[Call("handleExposure", window, FALSE) EXCEPT !.size = size]>>
               ELSE <<Call("handleObscurity", window, FALSE)>>
    /\ zeroResized' = [zeroResized EXCEPT ![window] = FALSE]
    /\ UNCHANGED <<visible, persistentSG, persistentGL, renderer, driverRunning,
                   m_windows, m_animation_timer, m_update_timer, guiPc, guiTmp, guiQueue,
                   threadVars, sigCount, hooks, frames>>

\* resize(), called by the window's resize event; its call of polishAndSync()
\* is marked with the window and the size of the resize it ends
resize(w, size) ==
    /\ GuiIdle
    /\ IF \/ ~running \/ Len(m_windows) = 0 \/ ~exposed[w] \/ windowFor(m_windows, w) = 0
          \/ isDegenerate(size)
       THEN UNCHANGED <<rtQueue, guiK>>
       ELSE /\ PostToThread(Ev("Resize", w, size, FALSE))
            /\ guiK' = <<[Call("polishAndSync", w, FALSE) EXCEPT !.size = size]>>
    /\ zeroResized' = [zeroResized EXCEPT ![w] =
                          /\ isDegenerate(size)
                          /\ running /\ exposed[w] /\ windowFor(m_windows, w) # 0]
    /\ UNCHANGED <<visible, exposed, persistentSG, persistentGL, renderer, driverRunning,
                   m_windows, m_animation_timer, m_update_timer, guiPc, guiTmp, guiQueue,
                   running, rtPc, rt_windows, gl, sgReady, pendingUpdate, sleeping,
                   animationRunning, guiIsLocked, shouldExit, animationRequestsPending,
                   rtTmp, exitFlag, mutex, woken, sigCount, hooks, frames>>

\* maybeUpdate() on the GUI thread: the records afterwards
maybeUpdateWindows(window) ==
    LET w == windowFor(m_windows, window) IN
    IF w = 0 \/ ~running THEN m_windows
    ELSE [m_windows EXCEPT ![w].pendingUpdate = TRUE]

\* maybeUpdate() arming the timer without the test of isRunning()
maybeUpdateTimerWithoutThread(window) ==
    LET w == windowFor(m_windows, window) IN
    IF w = 0 THEN m_update_timer
    ELSE IF m_windows[w].pendingUpdate THEN m_update_timer
    ELSE TRUE

\* maybeUpdate() on the GUI thread: m_update_timer afterwards
maybeUpdateTimer(window) ==
    LET w == windowFor(m_windows, window) IN
    IF w = 0 \/ ~running THEN m_update_timer
    ELSE IF m_windows[w].pendingUpdate THEN m_update_timer
    ELSE TRUE

\* update() called on the GUI thread, which is maybeUpdate()
update(window) ==
    /\ GuiIdle
    /\ m_windows' = maybeUpdateWindows(window)
    /\ m_update_timer' = maybeUpdateTimer(window)
    /\ UNCHANGED <<hostVars, m_animation_timer, guiPc, guiK, guiTmp, guiQueue,
                   threadVars, obsVars>>

\* grab(), called by QQuickWindow::grabWindow()
grab(window) ==
    /\ GuiIdle
    /\ guiK' = IF ~running THEN <<>> ELSE <<Call("grab", window, FALSE)>>
    /\ UNCHANGED <<hostVars, m_windows, m_animation_timer, m_update_timer, guiPc, guiTmp,
                   guiQueue, threadVars, obsVars>>

\* releaseResources(window), called by QQuickWindow::releaseResources()
releaseResources(window) ==
    /\ GuiIdle
    /\ guiK' = <<Call("releaseResources", window, FALSE)>>
    /\ UNCHANGED <<hostVars, m_windows, m_animation_timer, m_update_timer, guiPc, guiTmp,
                   guiQueue, threadVars, obsVars>>

\* The animation driver starts: the queued slot of the render thread, then
\* QSGThreadedRenderLoop::animationStarted()
animationStarted ==
    /\ GuiIdle
    /\ ~driverRunning
    /\ Len(rtQueue) < MaxRtQueue
    /\ driverRunning' = TRUE
    /\ PostToThread(Ev("animationStarted", NoWindow, NoSize, FALSE))
    /\ m_animation_timer' = (m_animation_timer \/ ~anyoneShowing)
    /\ UNCHANGED <<visible, exposed, persistentSG, persistentGL, renderer,
                   m_windows, m_update_timer, guiPc, guiK, guiTmp, guiQueue,
                   running, rtPc, rt_windows, gl, sgReady, pendingUpdate, sleeping,
                   animationRunning, guiIsLocked, shouldExit, animationRequestsPending,
                   rtTmp, exitFlag, mutex, woken, obsVars>>

\* The animation driver stops: QSGThreadedRenderLoop::animationStopped()
animationStopped ==
    /\ GuiIdle
    /\ driverRunning
    /\ Len(rtQueue) < MaxRtQueue
    /\ driverRunning' = FALSE
    /\ PostToThread(Ev("animationStopped", NoWindow, NoSize, FALSE))
    /\ m_animation_timer' = (m_animation_timer /\ anyoneShowing)
    /\ UNCHANGED <<visible, exposed, persistentSG, persistentGL, renderer,
                   m_windows, m_update_timer, guiPc, guiK, guiTmp, guiQueue,
                   running, rtPc, rt_windows, gl, sgReady, pendingUpdate, sleeping,
                   animationRunning, guiIsLocked, shouldExit, animationRequestsPending,
                   rtTmp, exitFlag, mutex, woken, obsVars>>

\* event(): QEvent::Timer of m_update_timer
UpdateTimerEvent ==
    /\ GuiIdle
    /\ m_update_timer
    /\ m_update_timer' = FALSE
    /\ guiK' = <<Call("polishAndSync", NoWindow, FALSE)>>
    /\ UNCHANGED <<hostVars, m_windows, m_animation_timer, guiPc, guiTmp, guiQueue,
                   threadVars, obsVars>>

\* event(): WM_AdvanceAnimations, the read of --animationRequestsPending
AdvanceAnimationsRead ==
    /\ GuiIdle
    /\ guiQueue # <<>>
    /\ Head(guiQueue).type = "AdvanceAnimations"
    /\ guiTmp' = animationRequestsPending
    /\ guiPc' = "aa_w"
    /\ UNCHANGED <<hostVars, m_windows, m_animation_timer, m_update_timer, guiK, guiQueue,
                   threadVars, obsVars>>

\* event(): WM_AdvanceAnimations, the write of --animationRequestsPending and
\* the rest of the handler
AdvanceAnimationsWrite ==
    /\ guiPc = "aa_w"
    /\ animationRequestsPending' = guiTmp - 1
    /\ guiTmp' = 0
    /\ guiQueue' = Tail(guiQueue)
    /\ guiPc' = "run"
    /\ UNCHANGED <<hostVars, m_windows, m_animation_timer, m_update_timer, guiK,
                   running, rtPc, rt_windows, gl, sgReady, pendingUpdate, sleeping,
                   animationRunning, guiIsLocked, shouldExit, rtTmp, exitFlag, rtQueue,
                   mutex, woken, obsVars>>


\* ------------------------------------------- the sub-calls of a coordinator call

\* handleExposure(), up to its call of polishAndSync()
handleExposure ==
    /\ Calling("handleExposure")
    /\ LET window == Head(guiK).window IN
         PostToThread(Ev("Expose", window, Head(guiK).size, FALSE))
    /\ IF ~running
       THEN /\ shouldExit' = FALSE
            /\ animationRunning' = driverRunning
            /\ running' = TRUE
            /\ rtPc' = "top"
       ELSE UNCHANGED <<shouldExit, animationRunning, running, rtPc>>
    /\ guiK' = <<Call("polishAndSync", NoWindow, FALSE), Call("killAnimationTimer", NoWindow, FALSE)>>
               \o Tail(guiK)
    /\ UNCHANGED <<hostVars, m_windows, m_animation_timer, m_update_timer, guiPc, guiTmp,
                   guiQueue, rt_windows, gl, sgReady, pendingUpdate, sleeping, guiIsLocked,
                   animationRequestsPending, rtTmp, exitFlag, mutex, woken, obsVars>>

\* handleExposure(), after polishAndSync(): the non-visual animation timer is killed
killAnimationTimer ==
    /\ Calling("killAnimationTimer")
    /\ m_animation_timer' = FALSE
    /\ guiK' = Tail(guiK)
    /\ UNCHANGED <<hostVars, m_windows, m_update_timer, guiPc, guiTmp, guiQueue,
                   threadVars, obsVars>>

\* handleObscurity()
handleObscurity ==
    /\ Calling("handleObscurity")
    /\ IF running
       THEN PostToThread(Ev("Obscure", Head(guiK).window, NoSize, FALSE))
       ELSE UNCHANGED rtQueue
    /\ m_animation_timer' = (m_animation_timer \/ (~anyoneShowing /\ driverRunning))
    /\ guiK' = Tail(guiK)
    /\ UNCHANGED <<hostVars, m_windows, m_update_timer, guiPc, guiTmp, guiQueue,
                   running, rtPc, rt_windows, gl, sgReady, pendingUpdate, sleeping,
                   animationRunning, guiIsLocked, shouldExit, animationRequestsPending,
                   rtTmp, exitFlag, mutex, woken, obsVars>>

\* hide(): the loop that removes the window's record
removeWindowRecord ==
    /\ Calling("removeWindow")
    /\ m_windows' = removeWindow(m_windows, Head(guiK).window)
    /\ guiK' = Tail(guiK)
    /\ UNCHANGED <<hostVars, m_animation_timer, m_update_timer, guiPc, guiTmp, guiQueue,
                   threadVars, obsVars>>

\* The window object is gone once its destructor has run; its name then
\* stands for a window not yet shown.
destroyed ==
    /\ Calling("destroyed")
    /\ LET window == Head(guiK).window IN
         /\ visible' = [visible EXCEPT ![window] = FALSE]
         /\ exposed' = [exposed EXCEPT ![window] = FALSE]
         /\ renderer' = [renderer EXCEPT ![window] = FALSE]
         /\ zeroResized' = [zeroResized EXCEPT ![window] = FALSE]
    /\ guiK' = Tail(guiK)
    /\ UNCHANGED <<persistentSG, persistentGL, driverRunning, m_windows, m_animation_timer,
                   m_update_timer, guiPc, guiTmp, guiQueue, threadVars, sigCount, hooks, frames>>

\* polishAndSync() without its second loop (variant)
KeptUpdates == m_windows

\* polishAndSync(): the flags cleared by its second loop
ClearedUpdates == [i \in 1..Len(m_windows) |-> [m_windows[i] EXCEPT !.pendingUpdate = FALSE]]

\* polishAndSync() without m_thread->guiIsLocked = true
polishAndSyncUnflagged ==
    /\ Calling("polishAndSync")
    /\ IF ~anyoneShowing
       THEN /\ guiK' = Tail(guiK)
            /\ UNCHANGED <<m_windows, rtQueue, guiPc, sigCount>>
       ELSE /\ mutex = "free"
            /\ m_windows' = ClearedUpdates
            /\ PostToThread(Ev("RequestSync", NoWindow, NoSize, FALSE))
            /\ guiPc' = "ps_wait"
            /\ sigCount' = 0
            /\ UNCHANGED guiK
    /\ UNCHANGED <<hostVars, m_animation_timer, m_update_timer, guiTmp, guiQueue,
                   running, rtPc, rt_windows, gl, sgReady, pendingUpdate, sleeping,
                   animationRunning, guiIsLocked, shouldExit, animationRequestsPending,
                   rtTmp, exitFlag, mutex, woken, hooks>>
    /\ UNCHANGED <<zeroResized, frames>>

\* polishAndSync(), up to waitCondition.wait(), which releases the mutex
polishAndSync ==
    /\ Calling("polishAndSync")
    /\ IF ~anyoneShowing
       THEN /\ guiK' = Tail(guiK)
            /\ UNCHANGED <<m_windows, guiIsLocked, rtQueue, guiPc, sigCount>>
       ELSE /\ mutex = "free"
            /\ m_windows' = ClearedUpdates
            /\ guiIsLocked' = TRUE
            /\ PostToThread(Ev("RequestSync", NoWindow, NoSize, FALSE))
            /\ guiPc' = "ps_wait"
            /\ sigCount' = 0
            /\ UNCHANGED guiK
    /\ UNCHANGED <<hostVars, m_animation_timer, m_update_timer, guiTmp, guiQueue,
                   running, rtPc, rt_windows, gl, sgReady, pendingUpdate, sleeping,
                   animationRunning, shouldExit, animationRequestsPending, rtTmp, exitFlag,
                   mutex, woken, hooks>>
    /\ UNCHANGED <<zeroResized, frames>>

\* The persistence flags the host may have given its windows: the host sets
\* them at any time, and the loop reads those of the coordinator's windows
\* only, while a release is handled.
PersistenceFlags ==
    {f \in [Windows -> BOOLEAN] : \A w \in Windows : f[w] => windowFor(m_windows, w) # 0}

\* The same, with every window of the coordinator persistent or none.
UniformFlags ==
    {f \in PersistenceFlags : \A v, w \in Windows :
        (windowFor(m_windows, v) # 0 /\ windowFor(m_windows, w) # 0) => f[v] = f[w]}

\* releaseResources() without waitCondition.wait(): it returns once it has
\* posted WM_TryRelease.
releaseResourcesCallUnwaited(sgFlags, glFlags) ==
    /\ Calling("releaseResources")
    /\ mutex = "free"
    /\ IF running /\ ~shouldExit
       THEN /\ PostToThread(Ev("TryRelease", Head(guiK).window, NoSize, Head(guiK).inDestructor))
            /\ persistentSG' = sgFlags
            /\ persistentGL' = glFlags
       ELSE UNCHANGED <<rtQueue, persistentSG, persistentGL>>
    /\ guiK' = Tail(guiK)
    /\ UNCHANGED <<visible, exposed, renderer, driverRunning, m_windows, m_animation_timer,
                   m_update_timer, guiPc, guiTmp, guiQueue, running, rtPc, rt_windows, gl,
                   sgReady, pendingUpdate, sleeping, animationRunning, guiIsLocked,
                   shouldExit, animationRequestsPending, rtTmp, exitFlag, mutex, woken,
                   obsVars>>

\* releaseResources(), up to waitCondition.wait() or, with no thread to ask,
\* to mutex.unlock()
releaseResourcesCall(sgFlags, glFlags) ==
    /\ Calling("releaseResources")
    /\ mutex = "free"
    /\ IF running /\ ~shouldExit
       THEN /\ PostToThread(Ev("TryRelease", Head(guiK).window, NoSize, Head(guiK).inDestructor))
            /\ persistentSG' = sgFlags
            /\ persistentGL' = glFlags
            /\ guiPc' = "rel_wait"
            /\ sigCount' = 0
            /\ UNCHANGED guiK
       ELSE /\ guiK' = Tail(guiK)
            /\ UNCHANGED <<rtQueue, guiPc, sigCount, persistentSG, persistentGL>>
    /\ UNCHANGED <<visible, exposed, renderer, driverRunning, m_windows, m_animation_timer, m_update_timer, guiTmp, guiQueue,
                   running, rtPc, rt_windows, gl, sgReady, pendingUpdate, sleeping,
                   animationRunning, guiIsLocked, shouldExit, animationRequestsPending,
                   rtTmp, exitFlag, mutex, woken, hooks>>
    /\ UNCHANGED <<zeroResized, frames>>

\* grab(), from polishItems() to waitCondition.wait()
grabCall ==
    /\ Calling("grab")
    /\ mutex = "free"
    /\ PostToThread(Ev("Grab", Head(guiK).window, NoSize, FALSE))
    /\ guiPc' = "grab_wait"
    /\ sigCount' = 0
    /\ UNCHANGED <<hostVars, m_windows, m_animation_timer, m_update_timer, guiK, guiTmp,
                   guiQueue, running, rtPc, rt_windows, gl, sgReady, pendingUpdate, sleeping,
                   animationRunning, guiIsLocked, shouldExit, animationRequestsPending,
                   rtTmp, exitFlag, mutex, woken, hooks>>
    /\ UNCHANGED <<zeroResized, frames>>

\* A wait that returns as soon as the mutex is free, woken or not
WaitReturnsUnwoken ==
    /\ GuiWaits
    /\ mutex = "free"
    /\ mutex' = "gui"
    /\ woken' = FALSE
    /\ guiPc' = CASE guiPc = "ps_wait" -> "ps_wake"
                  [] guiPc = "rel_wait" -> "rel_wake"
                  [] guiPc = "grab_wait" -> "grab_wake"
    /\ UNCHANGED <<hostVars, m_windows, m_animation_timer, m_update_timer, guiK, guiTmp,
                   guiQueue, running, rtPc, rt_windows, gl, sgReady, pendingUpdate, sleeping,
                   animationRunning, guiIsLocked, shouldExit, animationRequestsPending,
                   rtTmp, exitFlag, rtQueue, obsVars>>

\* waitCondition.wait() returns: the GUI was woken and has the mutex again.
WaitReturns ==
    /\ GuiWaits
    /\ woken
    /\ mutex = "free"
    /\ mutex' = "gui"
    /\ woken' = FALSE
    /\ guiPc' = CASE guiPc = "ps_wait" -> "ps_wake"
                  [] guiPc = "rel_wait" -> "rel_wake"
                  [] guiPc = "grab_wait" -> "grab_wake"
    /\ UNCHANGED <<hostVars, m_windows, m_animation_timer, m_update_timer, guiK, guiTmp,
                   guiQueue, running, rtPc, rt_windows, gl, sgReady, pendingUpdate, sleeping,
                   animationRunning, guiIsLocked, shouldExit, animationRequestsPending,
                   rtTmp, exitFlag, rtQueue, obsVars>>

\* polishAndSync() returning after the wait with guiIsLocked left set
polishAndSyncReturnFlagged ==
    /\ guiPc = "ps_wake"
    /\ mutex' = "free"
    /\ guiPc' = "run"
    /\ guiK' = Tail(guiK)
    /\ UNCHANGED <<hostVars, m_windows, m_animation_timer, m_update_timer, guiTmp, guiQueue,
                   running, rtPc, rt_windows, gl, sgReady, pendingUpdate, sleeping,
                   animationRunning, guiIsLocked, shouldExit, animationRequestsPending,
                   rtTmp, exitFlag, rtQueue, woken, obsVars>>

\* polishAndSync(), after the wait: guiIsLocked = false; mutex.unlock()
polishAndSyncReturn ==
    /\ guiPc = "ps_wake"
    /\ guiIsLocked' = FALSE
    /\ mutex' = "free"
    /\ guiPc' = "run"
    /\ guiK' = Tail(guiK)
    /\ UNCHANGED <<hostVars, m_windows, m_animation_timer, m_update_timer, guiTmp, guiQueue,
                   running, rtPc, rt_windows, gl, sgReady, pendingUpdate, sleeping,
                   animationRunning, shouldExit, animationRequestsPending, rtTmp, exitFlag,
                   rtQueue, woken, obsVars>>

\* releaseResources() and grab(), after the wait: mutex.unlock(); what the
\* persistence flags were is of no further use
unlockReturn ==
    /\ guiPc \in {"rel_wake", "grab_wake"}
    /\ mutex' = "free"
    /\ guiPc' = "run"
    /\ guiK' = Tail(guiK)
    /\ persistentSG' = [w \in Windows |-> FALSE]
    /\ persistentGL' = [w \in Windows |-> FALSE]
    /\ UNCHANGED <<visible, exposed, renderer, driverRunning, m_windows, m_animation_timer, m_update_timer, guiTmp, guiQueue,
                   running, rtPc, rt_windows, gl, sgReady, pendingUpdate, sleeping,
                   animationRunning, guiIsLocked, shouldExit, animationRequestsPending,
                   rtTmp, exitFlag, rtQueue, woken, obsVars>>

\* The steps of a coordinator call under way.
GuiCalls ==
    \/ handleExposure
    \/ killAnimationTimer
    \/ handleObscurity
    \/ removeWindowRecord
    \/ destroyed
    \/ polishAndSync
    \/ WaitReturns
    \/ polishAndSyncReturn
    \/ unlockReturn

\* Windows shown, exposed, obscured, hidden, destroyed, grabbed and asked to
\* release their resources, with any persistence flags and with sizes that are
\* degenerate or not.
Lifecycle ==
    \/ \E w \in Windows : show(w)
    \/ \E w \in Windows : hide(w)
    \/ \E w \in Windows : windowDestroyed(w)
    \/ \E w \in Windows : \E size \in ExposeSizes \cup {NoSize} : exposureChanged(w, size)
    \/ \E w \in Windows : grab(w)
    \/ \E w \in Windows : releaseResources(w)
    \/ grabCall
    \/ \E sgFlags \in PersistenceFlags : \E glFlags \in PersistenceFlags :
            releaseResourcesCall(sgFlags, glFlags)

Next == Lifecycle \/ GuiCalls \/ RenderThread \/ RenderThreadGrab

Spec == Init /\ [][Next]_vars

\* Windows of one size shown, exposed, obscured, hidden and destroyed, all of
\* them persistent or none.
PlainLifecycle ==
    \/ \E w \in Windows : show(w)
    \/ \E w \in Windows : hide(w)
    \/ \E w \in Windows : windowDestroyed(w)
    \/ \E w \in Windows : \E size \in {<<1, 1>>, NoSize} : exposureChanged(w, size)
    \/ \E flags \in UniformFlags : releaseResourcesCall(flags, flags)

\* Items ask for updates and the update timer fires.
Updating ==
    \/ \E w \in Windows : update(w)
    \/ UpdateTimerEvent

\* Windows are resized, to sizes that are degenerate or not.
Resizing == \E w \in Windows : \E size \in Sizes : resize(w, size)

\* Windows are grabbed.
Grabbing ==
    \/ \E w \in Windows : grab(w)
    \/ grabCall

\* Every way into a sync: exposure, the update timer, a resize, a grab.
SyncNext ==
    \/ PlainLifecycle
    \/ Updating
    \/ Resizing
    \/ Grabbing
    \/ GuiCalls
    \/ RenderThread
    \/ RenderThreadGrab
    \/ HandleResize

SyncSpec == Init /\ [][SyncNext]_vars

\* The life cycle with updates and resizes under fair scheduling: a thread
\* that can take a step of the code takes one; the host is free to call or not.
LiveNext ==
    \/ PlainLifecycle
    \/ Updating
    \/ Resizing
    \/ GuiCalls
    \/ RenderThread
    \/ HandleResize

LiveSpec ==
    /\ Init
    /\ [][LiveNext]_vars
    /\ WF_vars(RenderThread \/ HandleResize)
    /\ WF_vars(GuiCalls \/ \E flags \in UniformFlags : releaseResourcesCall(flags, flags))

\* The life cycle with an animation driver that starts and stops.
Animation ==
    \/ animationStarted
    \/ animationStopped
    \/ AdvanceAnimationsRead
    \/ AdvanceAnimationsWrite

AnimNext == PlainLifecycle \/ Animation \/ GuiCalls \/ RenderThread \/ RenderThreadAnimation

AnimSpec == Init /\ [][AnimNext]_vars

\* The life cycle with items asking for updates and the update timer firing,
\* and no other caller of polishAndSync() than handleExposure() and the timer.
UpdateNext == PlainLifecycle \/ Updating \/ GuiCalls \/ RenderThread

UpdateSpec == Init /\ [][UpdateNext]_vars

\* The expose event of a window reaches exposureChanged() before its show
\* event reaches show(): the window has no record yet and the call returns.
exposedBeforeShown(window, size) ==
    /\ GuiIdle
    /\ ~visible[window]
    /\ ~exposed[window]
    /\ windowFor(m_windows, window) = 0
    /\ Len(rtQueue) < MaxRtQueue
    /\ exposed' = [exposed EXCEPT ![window] = TRUE]
    /\ zeroResized' = [zeroResized EXCEPT ![window] = FALSE]
    /\ UNCHANGED <<visible, persistentSG, persistentGL, renderer, driverRunning,
                   loopVars, threadVars, sigCount, hooks, frames>>

\* show(), called by the show event of a window that is exposed already
showExposed(window) ==
    /\ GuiIdle
    /\ ~visible[window]
    /\ exposed[window]
    /\ Len(rtQueue) < MaxRtQueue
    /\ visible' = [visible EXCEPT ![window] = TRUE]
    /\ m_windows' = Append(m_windows, [window |-> window, pendingUpdate |-> FALSE])
    /\ UNCHANGED <<exposed, persistentSG, persistentGL, renderer, driverRunning,
                   m_animation_timer, m_update_timer, guiPc, guiK, guiTmp, guiQueue,
                   threadVars, obsVars>>

\* Expose events that come before the show event.
EarlyExposure ==
    \/ \E w \in Windows : exposedBeforeShown(w, <<1, 1>>)
    \/ \E w \in Windows : showExposed(w)

\* The life cycle with expose events before and after the show event, and
\* resizes.
RaceNext ==
    \/ PlainLifecycle
    \/ EarlyExposure
    \/ Resizing
    \/ GuiCalls
    \/ RenderThread
    \/ HandleResize

RaceSpec == Init /\ [][RaceNext]_vars

\* The life cycle with grabs under fair scheduling of both threads.
GrabLiveNext ==
    \/ PlainLifecycle
    \/ Grabbing
    \/ GuiCalls
    \/ RenderThread
    \/ RenderThreadGrab

GrabLiveSpec ==
    /\ Init
    /\ [][GrabLiveNext]_vars
    /\ WF_vars(RenderThread \/ RenderThreadGrab)
    /\ WF_vars(GuiCalls \/ grabCall \/ \E flags \in UniformFlags : releaseResourcesCall(flags, flags))

\* The life cycle with items that ask for repaints while they are synced or
\* rendered.
RepaintNext ==
    \/ PlainLifecycle
    \/ GuiCalls
    \/ RenderThread
    \/ requestRepaint

RepaintSpec == Init /\ [][RepaintNext]_vars

\* No window is persistent.
NoFlags == [w \in Windows |-> FALSE]

\* The life cycle with an animation driver under fair scheduling: a thread
\* that can take a step of the code takes one, and the GUI thread's event
\* loop delivers the events posted to it. processEvents() and exec() return
\* once the events of their batch are dispatched: events that keep arriving
\* do not hold them back for ever.
AnimLiveNext ==
    \/ \E w \in Windows : show(w)
    \/ \E w \in Windows : hide(w)
    \/ \E w \in Windows : windowDestroyed(w)
    \/ \E w \in Windows : \E size \in {<<1, 1>>, NoSize} : exposureChanged(w, size)
    \/ releaseResourcesCall(NoFlags, NoFlags)
    \/ Animation
    \/ GuiCalls
    \/ RenderThread
    \/ RenderThreadAnimation

AnimLiveSpec ==
    /\ Init
    /\ [][AnimLiveNext]_vars
    /\ WF_vars(RenderThread \/ RenderThreadAnimation)
    /\ SF_vars(WakeUp)
    /\ SF_vars(EventsDone)
    /\ WF_vars(GuiCalls \/ releaseResourcesCall(NoFlags, NoFlags))
    /\ WF_vars(AdvanceAnimationsRead \/ AdvanceAnimationsWrite)

\* ============================================================== properties

\* The render thread's handler of an event of the given kind returns in this
\* step: the event leaves the queue.
Handled(t) ==
    /\ rtQueue # <<>>
    /\ Head(rtQueue).type = t
    /\ rtQueue' = Tail(rtQueue)

\* polishAndSync() returns in this step, early or after the wait.
PolishAndSyncReturned ==
    /\ guiK # <<>>
    /\ Head(guiK).op = "polishAndSync"
    /\ guiK' = Tail(guiK)

\* The windows of the render thread's records, of the coordinator's records.
RenderWindows == {rt_windows[i].window : i \in 1..Len(rt_windows)}
LoopWindows == {m_windows[i].window : i \in 1..Len(m_windows)}

\* C1: under fair scheduling of both threads, every polishAndSync() that has
\* posted WM_RequestSync and waits on the condition is woken and returns.
C1_WaitingSyncReturns == (guiPc = "ps_wait") ~> (guiPc = "ps_wake")

\* C1, the case it fails in: the GUI waits in polishAndSync(), nothing has
\* woken it, and the render thread has finished.
C1_StuckInPolishAndSync == guiPc = "ps_wait" /\ ~woken /\ rtPc = "off" /\ ~running

\* C2: whenever the render thread is about to call syncSceneGraph(), in sync()
\* or in the WM_Grab handler, it holds the mutex and the GUI thread is blocked
\* in the wait of the call that asked for it, not yet woken.
C2_SyncOnlyWhileGuiBlocked ==
    /\ rtPc = "syncing" => (guiPc = "ps_wait" /\ mutex = "rt" /\ ~woken)
    /\ rtPc = "grab" => (guiPc = "grab_wait" /\ mutex = "rt" /\ ~woken)

\* C2, its case: sync() is about to sync two windows.
C2_SyncingTwoWindows == rtPc = "syncing" /\ Len(SyncedWindows) = 2

\* C3: whenever syncAndRender() has found SyncRequest set and sync() is
\* entered, guiIsLocked is true.
C3_GuiLockedAtSync == rtPc = "syncing" => guiIsLocked

\* C3, its case: sync() is entered for a single window record.
C3_SyncEntered == rtPc = "syncing" /\ SyncRequest \in pendingUpdate /\ Len(rt_windows) = 1

\* C4 as stated: when the handler of WM_RequestSync, WM_Grab or WM_TryRelease
\* returns, the condition has been signalled exactly once for the waiting GUI.
C4_HandlerSignalsOnce ==
    [][(Handled("RequestSync") \/ Handled("Grab") \/ Handled("TryRelease"))
          => sigCount' = 1]_vars

\* C4 as the code has it: when the handler of WM_Grab or WM_TryRelease
\* returns, the condition has been signalled exactly once for the waiting
\* GUI; when the handler of WM_RequestSync returns it has not been signalled,
\* sync() signals it once if it runs, and no wait is signalled twice.
C4_GrabAndReleaseSignalOnce ==
    [][/\ (Handled("Grab") \/ Handled("TryRelease")) => sigCount' = 1
       /\ Handled("RequestSync") => sigCount' = 0
       /\ (rtPc = "syncing" /\ rtPc' = "events") => sigCount' = 1
       /\ sigCount' <= 1]_vars

\* C4, its case: the WM_TryRelease handler has returned with windows still
\* recorded, and the GUI, signalled once, has yet to leave its wait.
C4_ReleaseSignalled ==
    guiPc = "rel_wait" /\ woken /\ sigCount = 1 /\ Len(rt_windows) > 0

\* C5: after every return of polishAndSync(), the early one and the one after
\* the wait, guiIsLocked is false and the GUI thread does not hold the mutex.
C5_UnlockedAfterPolishAndSync ==
    [][PolishAndSyncReturned => (~guiIsLocked' /\ mutex' # "gui")]_vars

\* C5, its case: polishAndSync() has returned to handleExposure() after a
\* sync that the render thread has performed.
C5_ReturnedAfterSync ==
    /\ Calling("killAnimationTimer")
    /\ sigCount = 1
    /\ ~guiIsLocked
    /\ mutex # "gui"

\* C6: the windows recorded by the render thread are always among the windows
\* recorded by the coordinator.
C6_RenderWindowsSubset == RenderWindows \subseteq LoopWindows

\* C6, its case: a window has been hidden and its record removed while the
\* render thread still records the other one.
C6_OneHiddenOneRecorded ==
    /\ Len(m_windows) = 1
    /\ Len(rt_windows) = 1
    /\ GuiIdle
    /\ \E w \in Windows : renderer[w] /\ w \notin LoopWindows

\* C7: the render thread never calls renderSceneGraph() for a window whose
\* size on the render thread has width 0 or height 0, neither in
\* syncAndRender() nor in the WM_Grab handler.
C7_NoRenderAtDegenerateSize ==
    \A i \in 1..Len(hooks) :
        hooks[i].hook = "renderSceneGraph" => ~isDegenerate(hooks[i].size)

\* C8: animationRequestsPending never exceeds 2.
C8_AtMostTwoPending == animationRequestsPending <= 2

\* C8, its case: the counter is at 2 while the coordinator is between the
\* read and the write of its decrement.
C8_TwoPendingDuringDecrement == animationRequestsPending = 2 /\ guiPc = "aa_w"

\* C9: whenever the loop of run() has ended, the OpenGL context is null.
C9_NoContextAtExit == rtPc = "exited" => ~gl

\* C9, its case: the loop has ended with a window recorded, WM_Expose having
\* followed WM_TryRelease in one batch of events.
C9_ExitedWithWindow == rtPc = "exited" /\ Len(rt_windows) > 0

\* C10 as stated: after WM_TryRelease is handled with a context, the context
\* is still there if and only if a window of the coordinator, other than the
\* requesting one in its destructor, has a persistent OpenGL context.
C10_ContextKeptIffPersistentGL ==
    [][(Handled("TryRelease") /\ gl) =>
          (gl' <=> \E w \in LoopWindows :
                      /\ (~Head(rtQueue).inDestructor \/ w # Head(rtQueue).window)
                      /\ persistentGL[w])]_vars

\* C10 as the code has it: after WM_TryRelease is handled with a context, the
\* context is still there if and only if the render thread records a window,
\* or a window of the coordinator, other than the requesting one in its
\* destructor, has a persistent scene graph or a persistent OpenGL context.
C10_ContextKeptIffRecordedOrPersistent ==
    [][(Handled("TryRelease") /\ gl) =>
          (gl' <=> \/ Len(rt_windows) > 0
                   \/ \E w \in LoopWindows :
                        /\ (~Head(rtQueue).inDestructor \/ w # Head(rtQueue).window)
                        /\ (persistentSG[w] \/ persistentGL[w]))]_vars

\* C10, its case: WM_TryRelease was handled with no window recorded and the
\* context survives on a persistent scene graph alone.
C10_KeptForPersistentSG ==
    /\ guiPc = "rel_wait"
    /\ woken
    /\ gl
    /\ Len(rt_windows) = 0
    /\ \E w \in LoopWindows : persistentSG[w]
    /\ \A w \in Windows : ~persistentGL[w]

\* polishAndSync() as the update timer's event calls it: the only call with
\* nothing of its caller left to do (handleExposure() goes on to its timer).
TimerPolishAndSync ==
    /\ Len(guiK) = 1
    /\ Head(guiK).op = "polishAndSync"

\* maybeUpdate() sets a window's pendingUpdate in this step.
UpdateFlagged ==
    /\ Len(m_windows') = Len(m_windows)
    /\ \E i \in 1..Len(m_windows) : ~m_windows[i].pendingUpdate /\ m_windows'[i].pendingUpdate

\* C11 as stated: maybeUpdate() calls arm the update timer once, the timer
\* leads to one polishAndSync(), and that polishAndSync() returns after
\* exactly one sync() of the render thread.
C11_TimerSyncsOnce ==
    [][(TimerPolishAndSync /\ PolishAndSyncReturned)
          => (guiPc = "ps_wake" /\ sigCount = 1)]_vars

\* C11 as the code has it: the update timer is armed only while the render
\* thread runs; a maybeUpdate() call that flags a window leaves the timer
\* armed, posts nothing and calls nothing; the timer is disarmed only by firing, which calls polishAndSync()
\* once; and that polishAndSync() returns after exactly one sync() if a window
\* is visible and exposed, and without any sync request if none is.
C11_TimerCoalescesUpdates ==
    [][/\ (~m_update_timer /\ m_update_timer') => running
       /\ UpdateFlagged => (m_update_timer' /\ UNCHANGED <<guiK, rtQueue>>)
       /\ (m_update_timer /\ ~m_update_timer') => (guiK = <<>> /\ TimerPolishAndSync')
       /\ (guiK = <<>> /\ TimerPolishAndSync') => (m_update_timer /\ ~m_update_timer')
       /\ (TimerPolishAndSync /\ PolishAndSyncReturned) =>
             \/ guiPc = "ps_wake" /\ sigCount = 1
             \/ guiPc = "run" /\ ~anyoneShowing /\ UNCHANGED rtQueue]_vars

\* C11, its case: two maybeUpdate() calls, one for each window, have armed
\* the one timer.
C11_TwoUpdatesOneTimer ==
    /\ m_update_timer
    /\ Len(m_windows) = 2
    /\ \A i \in 1..Len(m_windows) : m_windows[i].pendingUpdate

\* The size the render thread records for a window; NoSize without a record.
RenderSize(list, window) ==
    IF windowFor(list, window) = 0 THEN NoSize ELSE list[windowFor(list, window)].size

\* polishAndSync() returns in this step to a resize() of a size.
ResizeReturned ==
    /\ PolishAndSyncReturned
    /\ Head(guiK).window # NoWindow

\* C12: when resize(w, S) with a non-degenerate S returns, the render thread
\* records size S for w, the WM_Resize having been handled before the sync
\* that woke the GUI; that size changes only when a WM_Resize, WM_Expose or
\* WM_Obscure is handled; and every renderSceneGraph() call of syncAndRender()
\* is made at the size recorded for its window.
C12_ResizeAppliedBeforeReturn ==
    [][/\ ResizeReturned =>
            /\ guiPc = "ps_wake"
            /\ RenderSize(rt_windows', Head(guiK).window) = Head(guiK).size
       /\ (\E w \in Windows : RenderSize(rt_windows', w) # RenderSize(rt_windows, w)) =>
            (Handled("Resize") \/ Handled("Expose") \/ Handled("Obscure"))
       /\ \A i \in 1..Len(hooks') :
            hooks'[i].hook = "renderSceneGraph" =>
                hooks'[i].size = RenderSize(rt_windows', hooks'[i].window)]_vars

\* C12, its case: a window exposed at one size is rendered at the size of a
\* resize that has returned.
C12_RenderedAtNewSize ==
    /\ GuiIdle
    /\ \E i \in 1..Len(hooks) : hooks[i].hook = "renderSceneGraph" /\ hooks[i].size = <<2, 1>>

\* The render thread ends a pass of syncAndRender() in this step: the step
\* that renders and swaps the frames of the pass.
Rendered ==
    /\ rtPc \in {"sar", "syncing"}
    /\ rtPc' = "events"

\* C13: once resize() has given an exposed window, which the running render
\* thread renders, a width or height of 0, renderSceneGraph() is not called
\* for that window until a resize to a non-degenerate size.
C13_NoFrameAfterDegenerateResize ==
    [][Rendered =>
          \A i \in 1..Len(hooks') :
              hooks'[i].hook = "renderSceneGraph" => ~zeroResized[hooks'[i].window]]_vars

\* C14: every call of releaseResources() returns: the WM_TryRelease handler
\* calls wakeOne() once, while the GUI thread waits, whatever it releases; and
\* a WM_TryRelease handled while the render thread still has a window record
\* leaves the records, the context, the scene graph and shouldExit as they are.
C14_ReleaseReturnsAndKeepsActive ==
    /\ [][Handled("TryRelease") =>
             /\ guiPc = "rel_wait" /\ sigCount' = 1 /\ woken'
             /\ Len(rt_windows) > 0 =>
                   UNCHANGED <<rt_windows, gl, sgReady, shouldExit, exitFlag>>]_vars
    /\ (guiPc = "rel_wait") ~> (guiPc = "run")

\* releaseResources() has been woken by a render thread that still renders a
\* window.
C14_ReleaseRefusedWhileActive ==
    /\ guiPc = "rel_wait"
    /\ woken
    /\ Len(rt_windows) > 0
    /\ gl
    /\ ~shouldExit

\* C15: a WM_Resize or WM_Obscure handled by the render thread for a window
\* that has no record there faults nothing and changes nothing that the
\* thread keeps.
C15_UnknownWindowIsNoOp ==
    [][\A t \in {"Resize", "Obscure"} :
          (Handled(t) /\ windowFor(rt_windows, Head(rtQueue).window) = 0) =>
              /\ rtPc' # "crashed"
              /\ UNCHANGED <<rt_windows, pendingUpdate, gl, sgReady, shouldExit>>]_vars

\* C16: under fair scheduling of both threads, every grab() that has posted
\* WM_Grab and waits on the condition is woken and returns.
C16_GrabReturns == (guiPc = "grab_wait") ~> (guiPc = "run")

\* The render thread drives the animations: it has a window record and
\* animationRunning set, and it posts a WM_AdvanceAnimations or one it has
\* posted waits in the GUI thread's queue.
RenderThreadTicks ==
    /\ Len(rt_windows) > 0
    /\ animationRunning
    /\ \/ rtPc \in {"inc_r", "inc_w"}
       \/ \E i \in 1..Len(guiQueue) : guiQueue[i].type = "AdvanceAnimations"

\* C17: the animation timer of the GUI thread is never armed while the render
\* thread drives the animations.
C17_OneTickSource == ~(m_animation_timer /\ RenderThreadTicks)

\* The render thread parks in this step: run() enters exec().
Parks == ~sleeping /\ sleeping'

\* C18: with no animation and no update or repaint request, (a) a pass of
\* syncAndRender() renders only windows that have a record, so none between
\* the WM_Obscure and the next WM_Expose of a window; (b) the thread goes round
\* its loop instead of parking only when it is to exit or has a window and a
\* pending sync; (c) when a parked thread has handled the WM_Expose of a window
\* of non-degenerate size, and none of another window since, it parks again
\* after exactly one frame of it.
C18_ObscuredThenExposedOnce ==
    [][/\ Rendered =>
             \A i \in 1..Len(hooks') :
                 hooks'[i].hook = "renderSceneGraph" => hooks'[i].window \in RenderWindows
       /\ (rtPc = "events" /\ ~sleeping /\ rtPc' = "top") =>
             \/ shouldExit
             \/ Len(rt_windows) > 0 /\ pendingUpdate # {}
       /\ Parks =>
             \A i \in 1..Len(rt_windows) :
                 (frames[rt_windows[i].window].counting /\ ~isDegenerate(rt_windows[i].size))
                     => frames[rt_windows[i].window].n = 1]_vars

\* A parked thread has handled the WM_Expose of a window it had no record of,
\* has presented one frame of it and is about to park again.
C18_AboutToParkAfterOneFrame ==
    /\ rtPc = "events" /\ rtQueue = <<>> /\ ~sleeping /\ GoesToSleep
    /\ \E i \in 1..Len(rt_windows) :
          /\ frames[rt_windows[i].window].counting
          /\ frames[rt_windows[i].window].n = 1

\* C19: under fair scheduling of both threads, a handleExposure() called while
\* the render thread that was told to exit has not finished yet (isRunning()
\* still true, shouldExit set) leads to a rendered frame of the window.
C19_ExposureAfterReleaseRenders ==
    \A w \in Windows :
        (Calling("handleExposure") /\ Head(guiK).window = w /\ running /\ shouldExit)
            ~> (\E i \in 1..Len(hooks) :
                    hooks[i].hook = "renderSceneGraph" /\ hooks[i].window = w)

\* C19, the case it fails in: handleExposure() has not started the thread,
\* which was running, and the thread has finished with the WM_Expose in its
\* queue.
C19_ExposedToFinishedThread ==
    /\ guiPc = "ps_wait"
    /\ ~running
    /\ \E i \in 1..Len(rtQueue) : rtQueue[i].type = "Expose"

\* windowDestroyed() returns in this step.
WindowDestroyedReturned == Calling("destroyed") /\ guiK' = Tail(guiK)

\* The render thread is in a pass of syncAndRender().
MidFrame == rtPc \in {"inc_r", "inc_w", "sar", "syncing"}

\* C20: when windowDestroyed(W) returns, the render thread has no record of W
\* and no event for W waits in its queue; and syncSceneGraph() and
\* renderSceneGraph() (with swapBuffers() and fireFrameSwapped()) are called
\* only for windows the render thread has a record of. So none of them is
\* called for W after the return.
C20_NothingForDestroyedWindow ==
    [][/\ WindowDestroyedReturned =>
             /\ Head(guiK).window \notin RenderWindows
             /\ \A i \in 1..Len(rtQueue) : rtQueue[i].window # Head(guiK).window
       /\ \A i \in 1..Len(hooks') :
             hooks'[i].hook \in {"syncSceneGraph", "renderSceneGraph"}
                 => hooks'[i].window \in RenderWindows]_vars

\* windowDestroyed() is about to return for a window that was visible, while
\* the render thread is in a pass for the other window.
C20_DestroyedDuringFrame ==
    /\ Calling("destroyed")
    /\ visible[Head(guiK).window]
    /\ Head(guiK).window \notin RenderWindows
    /\ Len(rt_windows) > 0
    /\ MidFrame

\* C21: guiIsLocked is true whenever the GUI thread waits on the condition, in
\* polishAndSync(), in grab() and in releaseResources() alike, so the assertion
\* of maybeUpdate() holds for a call made on the render thread during the
\* syncSceneGraph() of sync() or of the WM_Grab handler.
C21_GuiLockedInEveryWait ==
    /\ guiPc \in {"ps_wait", "grab_wait", "rel_wait"} => guiIsLocked
    /\ rtPc \in {"syncing", "grab"} => guiIsLocked

\* C21, the case it fails in: the WM_Grab handler holds the mutex and is about
\* to call syncSceneGraph() while guiIsLocked is false.
C21_GrabSyncsUnlocked == rtPc = "grab" /\ mutex = "rt" /\ guiPc = "grab_wait" /\ ~guiIsLocked

\* C22: each bit of pendingUpdate is cleared when its action runs: SyncRequest
\* by sync(), and RepaintRequest by the pass of syncAndRender() that renders
\* the repaint, so that the thread parks after it.
C22_BitsClearedByTheirAction ==
    [][/\ (rtPc = "syncing" /\ rtPc' = "events") => SyncRequest \notin pendingUpdate'
       /\ (rtPc = "sar" /\ rtPc' = "events") => RepaintRequest \notin pendingUpdate']_vars

\* C22, the case it fails in: a pass without a sync has rendered the repaint,
\* RepaintRequest is still set and run() is about to go round its loop again.
C22_RepaintStillPending ==
    /\ rtPc = "events" /\ rtQueue = <<>> /\ ~sleeping
    /\ pendingUpdate = {RepaintRequest}
    /\ ~animationRunning
    /\ ~GoesToSleep
    /\ hooks # <<>>
    /\ \A i \in 1..Len(hooks) : hooks[i].hook = "renderSceneGraph"

\* The render thread is parked in exec() with work to do: a window record and
\* a pending update or a running animation.
ParkedWithWork ==
    /\ sleeping
    /\ Len(rt_windows) > 0
    /\ pendingUpdate # {} \/ animationRunning

InHide(o) ==
    /\ guiK # <<>>
    /\ Head(guiK).op = o
    /\ \/ Len(guiK) >= 2 /\ o = "releaseResources" /\ guiK[2].op = "removeWindow"
       \/ Len(guiK) >= 3 /\ o = "handleObscurity" /\ guiK[3].op = "removeWindow"

\* hide() returns in this step: its loop has removed the record.
HideReturned == Calling("removeWindow") /\ guiK' = Tail(guiK)

\* C24: hide(W) acts in order. Its handleObscurity() posts WM_Obscure(W) when the
\* thread runs, before releaseResources() posts WM_TryRelease(W, false) behind
\* it; the GUI thread leaves the wait of releaseResources() only once that
\* WM_TryRelease is handled; the coordinator's record of W is there until then;
\* the render thread has no record of W and no WM_Obscure(W) waiting when it
\* handles the WM_TryRelease; and when hide(W) returns neither side has a record
\* of W and no event for W waits.
C24_HideInOrder ==
    [][/\ (\E w \in Windows : hide(w) /\ exposed[w])
            => Head(guiK').op = "handleObscurity"
       /\ (InHide("handleObscurity") /\ guiK' = Tail(guiK) /\ running)
            => rtQueue' = Append(rtQueue, Ev("Obscure", Head(guiK).window, NoSize, FALSE))
       /\ (InHide("releaseResources") /\ guiPc = "run" /\ guiPc' = "rel_wait")
            => /\ rtQueue' = Append(rtQueue, Ev("TryRelease", Head(guiK).window, NoSize, FALSE))
               /\ Head(guiK).window \in LoopWindows
       /\ (InHide("releaseResources") /\ guiPc = "rel_wait")
            => /\ Head(guiK).window \in LoopWindows'
               /\ guiPc' # "rel_wait" =>
                     \A i \in 1..Len(rtQueue) : rtQueue[i].type # "TryRelease"
       /\ (InHide("releaseResources") /\ guiPc = "rel_wait" /\ Handled("TryRelease"))
            => /\ Head(guiK).window \notin RenderWindows
               /\ \A i \in 1..Len(rtQueue) : rtQueue[i].window # Head(guiK).window
                                                \/ rtQueue[i].type = "TryRelease"
       /\ HideReturned
            => /\ Head(guiK).window \notin RenderWindows'
               /\ Head(guiK).window \notin LoopWindows'
               /\ \A i \in 1..Len(rtQueue) : rtQueue[i].window # Head(guiK).window]_vars

\* hide() of an exposed window is about to return after its wait: the render
\* thread has handled WM_Obscure and WM_TryRelease and still runs.
C24_HiddenWhileThreadRuns ==
    /\ Calling("removeWindow")
    /\ exposed[Head(guiK).window]
    /\ running
    /\ sigCount = 1
    /\ rtQueue = <<>>

\* C25: whenever the GUI thread is between two operations, the off-screen
\* animation timer is armed exactly when the animation driver runs and no
\* tracked window is visible and exposed.
C25_TimerIffDriverAndNoneShowing ==
    GuiIdle => (m_animation_timer <=> (driverRunning /\ ~anyoneShowing))

\* windowDestroyed() of the last showing window has returned while the
\* animation driver runs: nothing is showing and the timer is not armed.
C25_DriverRunsUnticked ==
    /\ GuiIdle
    /\ driverRunning
    /\ m_windows = <<>>
    /\ ~m_animation_timer
    /\ ~running

\* The WM_AdvanceAnimations events posted and not yet handled.
AdvancesInFlight ==
    Len(SelectSeq(guiQueue, LAMBDA e : e.type = "AdvanceAnimations"))

\* C26: whenever neither thread is between the read and the write of its
\* increment or decrement, animationRequestsPending equals the number of
\* WM_AdvanceAnimations events posted and not yet handled; so it is never
\* negative and at most 2 such events wait.
C26_CounterEqualsInFlight ==
    (rtPc # "inc_w" /\ guiPc # "aa_w") =>
        /\ animationRequestsPending = AdvancesInFlight
        /\ animationRequestsPending >= 0
        /\ AdvancesInFlight <= 2

\* The counter has gone negative with no event waiting: an increment was lost
\* to a decrement that had read the counter before it.
C26_CounterNegative ==
    /\ rtPc # "inc_w"
    /\ guiPc # "aa_w"
    /\ AdvancesInFlight = 0
    /\ animationRequestsPending < 0

C28_DestroyedWindowCleaned ==
    [][/\ (Handled("TryRelease") /\ Head(rtQueue).inDestructor /\ gl)
             => hooks' = <<Hook("cleanupNodesOnShutdown", Head(rtQueue).window, NoSize)>>
       /\ (WindowDestroyedReturned /\ running /\ gl)
             => ~renderer[Head(guiK).window]]_vars

\* windowDestroyed() of a window that was synced is about to return with the
\* nodes of the window still there, the render thread going on with a context
\* and a record of the other window.
C28_DestroyedWithNodes ==
    /\ Calling("destroyed")
    /\ renderer[Head(guiK).window]
    /\ running
    /\ gl
    /\ sigCount = 1
    /\ Len(rt_windows) > 0

====
